---- MODULE Spec2Model ----
(***************************************************************************)
(* A state-machine model of src/ts-app/src/App.tsx: the AuthProvider       *)
(* session (token, isLoggedIn, sessionStorage), the App view switch, the   *)
(* remote client (apiCall / authenticatedApiCall) and the two dashboard    *)
(* panels (FriendsPanel, FriendRequestsPanel) with their asynchronous      *)
(* operations.  Every await is a suspension point: an operation is one     *)
(* step that issues the call and one step that resumes the handler when    *)
(* the call settles.                                                       *)
(***************************************************************************)
EXTENDS Integers, Sequences, FiniteSets, Bags, TLC

(* ------------------------------ bounds -------------------------------- *)

\* Longest payload a load response carries.
MaxLen == 2
\* Most calls the user has started and not yet seen settle.
MaxInFlight == 2

\* User names the service knows.
Users == {"a", "b"}
\* Token strings the login response can carry.
TokenStrings == {"", "t1"}

(* ------------------------- values and helpers ------------------------- *)

\* An optional value: <<>> is null / undefined, <<v>> is the value v.
None == <<>>
Some(v) == <<v>>

OptTokens == {None} \cup {Some(s) : s \in TokenStrings}

\* JavaScript truthiness of a string | null | undefined, as used by
\* `if (savedToken)` and `if (!token) return`.
Truthy(o) == o # None /\ o[1] # ""

\* Storage.setItem converts its value to a string: undefined becomes the
\* text "undefined".
ToStr(o) == IF o = None THEN "undefined" ELSE o[1]

\* All sequences over S of length at most n.
SeqsUpTo(S, n) == UNION {[1..k -> S] : k \in 0..n}

\* Friend { username } and FriendRequest { senderName }; the optional email
\* of a Friend is only rendered and never read by an operation.
Friend(u) == [username |-> u]
FriendRequest(u) == [senderName |-> u]
Friends == {Friend(u) : u \in Users}
FriendRequests == {FriendRequest(u) : u \in Users}

\* A removal that drops only the first matching entry.
FilterFriendsM(list, friendId) ==
  LET i == CHOOSE k \in 1..(Len(list) + 1) :
             /\ k = Len(list) + 1 \/ list[k].username = friendId
             /\ \A j \in 1..(k - 1) : list[j].username # friendId
  IN  IF i > Len(list) THEN list
      ELSE SubSeq(list, 1, i - 1) \o SubSeq(list, i + 1, Len(list))
\* prev.filter(f => f.username !== friendId).
FilterFriends(list, friendId) ==
  SelectSeq(list, LAMBDA f : f.username # friendId)

\* A removal that looks at the first entry only.
FilterRequestsM(list, sender) ==
  IF Len(list) > 0 /\ list[1].senderName = sender THEN Tail(list) ELSE list
\* prev.filter(r => r.senderName !== sender).
FilterRequests(list, sender) ==
  SelectSeq(list, LAMBDA r : r.senderName # sender)

\* `response.data || []`.
OrEmpty(data) == IF data = None THEN <<>> ELSE data[1]

(* ----------------------------- remote client -------------------------- *)

SUCCESS == "SUCCESS"
FAILURE == "FAILURE"

\* What the transport does with one request: the service answers with a
\* JSON envelope, fetch rejects (network unreachable), or the body is not
\* JSON and response.json() rejects.
NetOk(status, data) == [net |-> "ok", status |-> status, data |-> data]
NetworkError == [net |-> "network_error", status |-> "-", data |-> None]
BadBody == [net |-> "bad_body", status |-> "-", data |-> None]
TransportFailures == {NetworkError, BadBody}

\* apiCall: awaits fetch and returns response.json(); there is no try/catch,
\* so a rejection of either promise rejects the call.
apiCall(n) ==
  IF n.net = "ok"
  THEN [completion |-> "returned", status |-> n.status, data |-> n.data]
  ELSE [completion |-> "rejected", status |-> "-", data |-> None]

\* authenticatedApiCall adds the Authorization header and returns apiCall's
\* promise.
authenticatedApiCall(n) == apiCall(n)

(* -------------------------------- state ------------------------------- *)

VARIABLES
  token,           \* AuthProvider: useState<string | null>(null)
  isLoggedIn,      \* AuthProvider: useState(false)
  stored,          \* sessionStorage item 'authToken': None when not set
  restored,        \* whether AuthProvider's mount effect has run
  currentView,     \* App: useState('login')
  friends,         \* FriendsPanel: useState<Friend[]>([])
  loadingF,        \* FriendsPanel: useState(true)
  requests,        \* FriendRequestsPanel: useState<FriendRequest[]>([])
  loadingR,        \* FriendRequestsPanel: loading, useState(true)
  sendingRequest,  \* FriendRequestsPanel: useState(false)
  inflight,        \* bag of remote calls that were issued and have not settled
  last,            \* the step just taken: which handler ran and what it saw
  removedF,        \* users whose removeFriend resolved SUCCESS in the mounted panel
  removedR,        \* senders whose accept/decline resolved SUCCESS in the mounted panel
  observe          \* which history a run keeps: "steps", "session", "removals", "none"

session == <<token, isLoggedIn, stored>>
panels == <<friends, loadingF, requests, loadingR, sendingRequest, removedF, removedR>>
vars == <<token, isLoggedIn, stored, restored, currentView, friends, loadingF,
          requests, loadingR, sendingRequest, inflight, last, removedF, removedR,
          observe>>

\* A call in flight: the operation that awaits it and the operation's argument.
Call(op, arg) == [op |-> op, arg |-> arg]

RelationshipOps == {"loadFriends", "loadRequests", "sendFriendRequest",
                    "acceptRequest", "declineRequest", "removeFriend"}
AllOps == RelationshipOps \cup {"login", "register"}

\* The record of a step that resumed the handler of call c on transport
\* result n: r is what the remote client completed with, threw whether the
\* handler let an exception escape, msg the antd message it displayed.
\* again: the call asked to remove an entry that an earlier call of the
\* mounted panel had already removed.
Resolved(c, n, r, threw, msg) ==
  [kind |-> "resolve", op |-> c.op, net |-> n.net, status |-> r.status,
   data |-> r.data, completion |-> r.completion, threw |-> threw, msg |-> msg,
   again |-> \/ c.op = "removeFriend" /\ c.arg \in removedF
             \/ c.op \in {"acceptRequest", "declineRequest"} /\ c.arg \in removedR]
\* The record of any other step.
Step(kind) ==
  [kind |-> kind, op |-> "-", net |-> "-", status |-> "-", data |-> None,
   completion |-> "-", threw |-> FALSE, msg |-> "none", again |-> FALSE]

RemovalOps == {"removeFriend", "acceptRequest", "declineRequest"}

\* A history is kept by one observer per run; the program's own variables
\* evolve the same way under each.
\*   "steps":    last is the step just taken.
\*   "session":  last is the latest call of login(t) or logout(), kept over
\*               every other step; a page reload does not erase it.
\*   "removals": removedF and removedR collect the removals that resolved
\*               SUCCESS; last only marks the step that resolved one.
\*   "none":     no history is kept.
IsSessionOp(ev) ==
  \/ ev.kind = "logout"
  \/ ev.kind = "resolve" /\ ev.op = "login" /\ ev.msg = "success"
IsRemoval(ev) ==
  ev.kind = "resolve" /\ ev.op \in RemovalOps /\ ev.msg = "success"
Record(ev) ==
  /\ last' = CASE observe = "steps" -> ev
               [] observe = "session" -> IF IsSessionOp(ev) THEN ev ELSE last
               [] observe = "removals" ->
                    IF IsRemoval(ev)
                    THEN [Step("removed") EXCEPT !.op = ev.op, !.again = ev.again]
                    ELSE Step("init")
               [] observe = "none" -> last
  /\ UNCHANGED observe
Removed(set, ok, arg) == IF ok /\ observe = "removals" THEN set \cup {arg} ELSE set

InFlightCount == BagCardinality(inflight)
Issue(c) == inflight (+) SetToBag({c})
Settle(c) == inflight (-) SetToBag({c})

\* Unmounting the dashboard ends the panels: when a call of theirs settles
\* later, its handler runs against an unmounted instance, React drops the
\* state updates and only the toast is left.  Such calls leave the model
\* with the instance; the calls of LoginPage and RegisterPage act on App and
\* AuthProvider, which stay mounted, and remain.
Unmounted(b) ==
  LET dom == {c \in DOMAIN b : c.op \notin RelationshipOps}
  IN  [d \in dom |-> b[d]]

(* ------------------------------ AuthProvider -------------------------- *)

\* A login that does not persist the token.
loginM(newToken) ==
  /\ token' = newToken
  /\ isLoggedIn' = TRUE
  /\ UNCHANGED stored
\* login(newToken): setToken, setIsLoggedIn(true), sessionStorage.setItem.
login(newToken) ==
  /\ token' = newToken
  /\ isLoggedIn' = TRUE
  /\ stored' = Some(ToStr(newToken))

\* logout(): setToken(null), setIsLoggedIn(false), sessionStorage.removeItem.
logout ==
  /\ token' = None
  /\ isLoggedIn' = FALSE
  /\ stored' = None

\* The mount effect: read the saved token and, if truthy, adopt it.
restore ==
  IF Truthy(stored)
  THEN /\ token' = stored
       /\ isLoggedIn' = TRUE
       /\ UNCHANGED stored
  ELSE UNCHANGED <<token, isLoggedIn, stored>>

(* ------------------------- dashboard mount / unmount ------------------ *)

\* AppContent renders <Dashboard/> exactly when isLoggedIn: a step that
\* turns isLoggedIn on mounts fresh panels, whose mount effects call
\* loadRequests() and loadFriends() with the token of that render; each
\* returns at once when the token is falsy.
FreshPanels ==
  /\ friends' = <<>>
  /\ loadingF' = TRUE
  /\ requests' = <<>>
  /\ loadingR' = TRUE
  /\ sendingRequest' = FALSE
  /\ removedF' = {}
  /\ removedR' = {}

MountEffects(base, tok) ==
  IF Truthy(tok)
  THEN base (+) SetToBag({Call("loadRequests", "-"),
                          Call("loadFriends", "-")})
  ELSE base

\* The panels and the calls in flight after a step that takes the session
\* from isLoggedIn to isLoggedIn' with the calls `base` left in flight.
Remount(base) ==
  IF ~isLoggedIn /\ isLoggedIn'
  THEN FreshPanels /\ inflight' = MountEffects(base, token')
  ELSE IF isLoggedIn /\ ~isLoggedIn'
  THEN FreshPanels /\ inflight' = Unmounted(base)
  ELSE UNCHANGED panels /\ inflight' = base

(* ------------------------ handlers: try / catch ----------------------- *)

\* Handlers of which two await their call outside any try block.
HasCatchM(op) == op \notin {"loadFriends", "removeFriend"}
\* Every handler awaits its call inside try { } catch { message.error }.
HasCatch(op) == op \in AllOps

\* Whether the body of the try block throws with result r: the awaited call
\* rejected, or LoginPage read response.data.token of a SUCCESS envelope
\* whose data is null.
TryThrows(op, r) ==
  \/ r.completion = "rejected"
  \/ op = "login" /\ r.status = SUCCESS /\ r.data = None

\* Whether the handler lets the exception escape to its caller.
Escapes(op, r) == TryThrows(op, r) /\ ~HasCatch(op)

\* Ops whose handler has an else branch that reports a FAILURE envelope;
\* loadFriends and removeFriend have none.
ReportsFailure(op) ==
  op \in {"login", "register", "loadRequests", "sendFriendRequest",
          "acceptRequest", "declineRequest"}

\* Ops whose success branch calls message.success.
ReportsSuccess(op) ==
  op \in {"login", "register", "sendFriendRequest", "acceptRequest",
          "declineRequest", "removeFriend"}

\* The antd message the handler of op displays on result r.
Message(op, r) ==
  IF TryThrows(op, r)
  THEN IF HasCatch(op) THEN "error" ELSE "none"
  ELSE IF r.status = SUCCESS
  THEN IF ReportsSuccess(op) THEN "success" ELSE "none"
  ELSE IF ReportsFailure(op) THEN "error" ELSE "none"

\* A removeFriend that does not test response.status.
SucceededM(op, r) ==
  ~TryThrows(op, r) /\ (r.status = SUCCESS \/ op = "removeFriend")
\* The handler reached its success branch: the try block did not throw and
\* response.status === 'SUCCESS'.
Succeeded(op, r) == ~TryThrows(op, r) /\ r.status = SUCCESS

(* ---------------------------- transport results ----------------------- *)

\* Envelopes the service may answer a login with: data null, or an object
\* whose token is absent, empty or a token string.
LoginResults ==
  {NetOk(SUCCESS, d) : d \in {None} \cup {Some(t) : t \in OptTokens}}
  \cup {NetOk(FAILURE, None)} \cup TransportFailures
\* Envelopes without a payload the handler reads.
PlainResults ==
  {NetOk(SUCCESS, None), NetOk(FAILURE, None)} \cup TransportFailures
\* Envelopes a list endpoint may answer with: data absent or a list of items.
ListResults(Items) ==
  {NetOk(SUCCESS, d) : d \in {None} \cup {Some(p) : p \in SeqsUpTo(Items, MaxLen)}}
  \cup {NetOk(FAILURE, None)} \cup TransportFailures

(* -------------------------------- Init -------------------------------- *)

\* A freshly loaded page: React state at its initial values, nothing in
\* flight, the mount effect of AuthProvider not yet run.
FreshPage ==
  /\ token' = None
  /\ isLoggedIn' = FALSE
  /\ restored' = FALSE
  /\ currentView' = "login"
  /\ FreshPanels
  /\ inflight' = EmptyBag

Start(mode) ==
  /\ token = None
  /\ isLoggedIn = FALSE
  /\ stored = None
  /\ restored = FALSE
  /\ currentView = "login"
  /\ friends = <<>>
  /\ loadingF = TRUE
  /\ requests = <<>>
  /\ loadingR = TRUE
  /\ sendingRequest = FALSE
  /\ inflight = EmptyBag
  /\ last = Step("init")
  /\ removedF = {}
  /\ removedR = {}
  /\ observe = mode

Init == Start("steps")
InitSession == Start("session")
InitRemovals == Start("removals")
InitLive == Start("none")

(* ------------------------------ session steps ------------------------- *)

\* AuthProvider's useEffect(..., []) runs once after the first render.
Restore ==
  /\ ~restored
  /\ restored' = TRUE
  /\ restore
  /\ Remount(inflight)
  /\ Record(Step("restore"))
  /\ UNCHANGED currentView

\* The user reloads the tab: a fresh App and AuthProvider over the same
\* sessionStorage; pending promises of the old page are gone.
Reload ==
  /\ restored
  /\ FreshPage
  /\ Record(Step("reload"))
  /\ UNCHANGED stored

\* Dashboard's logout button.
Logout ==
  /\ restored /\ isLoggedIn
  /\ logout
  /\ Remount(inflight)
  /\ Record(Step("logout"))
  /\ UNCHANGED <<restored, currentView>>

\* The links under the login and the register page.
ShowRegister ==
  /\ restored /\ ~isLoggedIn /\ currentView = "login"
  /\ currentView' = "register"
  /\ Record(Step("view"))
  /\ UNCHANGED <<session, restored, panels, inflight>>

ShowLogin ==
  /\ restored /\ ~isLoggedIn /\ currentView = "register"
  /\ currentView' = "login"
  /\ Record(Step("view"))
  /\ UNCHANGED <<session, restored, panels, inflight>>

\* LoginPage.handleSubmit up to its await.
SubmitLogin ==
  /\ restored /\ ~isLoggedIn /\ currentView = "login"
  /\ InFlightCount < MaxInFlight
  /\ inflight' = Issue(Call("login", "-"))
  /\ Record(Step("issue"))
  /\ UNCHANGED <<session, restored, currentView, panels>>

\* LoginPage.handleSubmit from its await on.  login and onSuccess belong to
\* AuthProvider and App, which stay mounted whatever page is shown.
ResolveLogin ==
  \E n \in LoginResults :
    LET c == Call("login", "-")
        r == apiCall(n)
    IN  /\ BagIn(c, inflight)
        /\ IF Succeeded("login", r)
           THEN /\ login(r.data[1])
                /\ currentView' = "dashboard"
           ELSE UNCHANGED <<session, currentView>>
        /\ Remount(Settle(c))
        /\ Record(Resolved(c, n, r, Escapes("login", r), Message("login", r)))
        /\ UNCHANGED restored

\* RegisterPage.handleSubmit up to its await.
SubmitRegister ==
  /\ restored /\ ~isLoggedIn /\ currentView = "register"
  /\ InFlightCount < MaxInFlight
  /\ inflight' = Issue(Call("register", "-"))
  /\ Record(Step("issue"))
  /\ UNCHANGED <<session, restored, currentView, panels>>

\* RegisterPage.handleSubmit from its await on.
ResolveRegister ==
  \E n \in PlainResults :
    LET c == Call("register", "-")
        r == apiCall(n)
    IN  /\ BagIn(c, inflight)
        /\ currentView' = IF Succeeded("register", r) THEN "login" ELSE currentView
        /\ inflight' = Settle(c)
        /\ Record(Resolved(c, n, r, Escapes("register", r), Message("register", r)))
        /\ UNCHANGED <<session, restored, panels>>

(* ------------------------------ FriendsPanel -------------------------- *)

\* A panel handler runs only while the dashboard is rendered, and returns at
\* once (`if (!token) return`) when the token of the current render is falsy.
PanelReady == restored /\ isLoggedIn /\ Truthy(token)

\* loadFriends from its await on (the call is issued by the mount effect).
ResolveLoadFriends ==
  \E c \in DOMAIN inflight, n \in ListResults(Friends) :
    LET r == authenticatedApiCall(n)
    IN  /\ c.op = "loadFriends"
        /\ friends' = IF Succeeded(c.op, r) THEN OrEmpty(r.data) ELSE friends
        /\ loadingF' = FALSE
        /\ inflight' = Settle(c)
        /\ Record(Resolved(c, n, r, Escapes(c.op, r), Message(c.op, r)))
        /\ UNCHANGED <<session, restored, currentView, requests, loadingR,
                       sendingRequest, removedF, removedR>>

\* removeFriend(friendId) up to its await: the Popconfirm of a listed friend.
RemoveFriend ==
  \E u \in Users :
    /\ PanelReady
    /\ \E i \in 1..Len(friends) : friends[i].username = u
    /\ InFlightCount < MaxInFlight
    /\ inflight' = Issue(Call("removeFriend", u))
    /\ Record(Step("issue"))
    /\ UNCHANGED <<session, restored, currentView, panels>>

\* removeFriend from its await on.
ResolveRemoveFriend ==
  \E c \in DOMAIN inflight, n \in PlainResults :
    LET r == authenticatedApiCall(n)
        ok == Succeeded(c.op, r)
    IN  /\ c.op = "removeFriend"
        /\ friends' = IF ok THEN FilterFriends(friends, c.arg) ELSE friends
        /\ removedF' = Removed(removedF, ok, c.arg)
        /\ inflight' = Settle(c)
        /\ Record(Resolved(c, n, r, Escapes(c.op, r), Message(c.op, r)))
        /\ UNCHANGED <<session, restored, currentView, loadingF, requests,
                       loadingR, sendingRequest, removedR>>

(* -------------------------- FriendRequestsPanel ----------------------- *)

\* loadRequests from its await on (the call is issued by the mount effect).
ResolveLoadRequests ==
  \E c \in DOMAIN inflight, n \in ListResults(FriendRequests) :
    LET r == authenticatedApiCall(n)
    IN  /\ c.op = "loadRequests"
        /\ requests' = IF Succeeded(c.op, r) THEN OrEmpty(r.data) ELSE requests
        /\ loadingR' = FALSE
        /\ inflight' = Settle(c)
        /\ Record(Resolved(c, n, r, Escapes(c.op, r), Message(c.op, r)))
        /\ UNCHANGED <<session, restored, currentView, friends, loadingF,
                       sendingRequest, removedF, removedR>>

\* sendFriendRequest(values) up to its await: the form's onFinish, which the
\* required rule lets through only with a user name.
SendFriendRequest ==
  \E u \in Users :
    /\ PanelReady
    /\ InFlightCount < MaxInFlight
    /\ sendingRequest' = TRUE
    /\ inflight' = Issue(Call("sendFriendRequest", u))
    /\ Record(Step("issue"))
    /\ UNCHANGED <<session, restored, currentView, friends, loadingF,
                   requests, loadingR, removedF, removedR>>

\* sendFriendRequest from its await on: no list is touched.
ResolveSendFriendRequest ==
  \E c \in DOMAIN inflight, n \in PlainResults :
    LET r == authenticatedApiCall(n)
    IN  /\ c.op = "sendFriendRequest"
        /\ sendingRequest' = FALSE
        /\ inflight' = Settle(c)
        /\ Record(Resolved(c, n, r, Escapes(c.op, r), Message(c.op, r)))
        /\ UNCHANGED <<session, restored, currentView, friends, loadingF,
                       requests, loadingR, removedF, removedR>>

\* acceptRequest(sender) up to its await: the button of a listed request.
AcceptRequest ==
  \E u \in Users :
    /\ PanelReady
    /\ \E i \in 1..Len(requests) : requests[i].senderName = u
    /\ InFlightCount < MaxInFlight
    /\ inflight' = Issue(Call("acceptRequest", u))
    /\ Record(Step("issue"))
    /\ UNCHANGED <<session, restored, currentView, panels>>

\* acceptRequest from its await on.
ResolveAcceptRequest ==
  \E c \in DOMAIN inflight, n \in PlainResults :
    LET r == authenticatedApiCall(n)
        ok == Succeeded(c.op, r)
    IN  /\ c.op = "acceptRequest"
        /\ requests' = IF ok THEN FilterRequests(requests, c.arg) ELSE requests
        /\ removedR' = Removed(removedR, ok, c.arg)
        /\ inflight' = Settle(c)
        /\ Record(Resolved(c, n, r, Escapes(c.op, r), Message(c.op, r)))
        /\ UNCHANGED <<session, restored, currentView, friends, loadingF,
                       loadingR, sendingRequest, removedF>>

\* declineRequest(sender) up to its await: the button of a listed request.
DeclineRequest ==
  \E u \in Users :
    /\ PanelReady
    /\ \E i \in 1..Len(requests) : requests[i].senderName = u
    /\ InFlightCount < MaxInFlight
    /\ inflight' = Issue(Call("declineRequest", u))
    /\ Record(Step("issue"))
    /\ UNCHANGED <<session, restored, currentView, panels>>

\* declineRequest from its await on.
ResolveDeclineRequest ==
  \E c \in DOMAIN inflight, n \in PlainResults :
    LET r == authenticatedApiCall(n)
        ok == Succeeded(c.op, r)
    IN  /\ c.op = "declineRequest"
        /\ requests' = IF ok THEN FilterRequests(requests, c.arg) ELSE requests
        /\ removedR' = Removed(removedR, ok, c.arg)
        /\ inflight' = Settle(c)
        /\ Record(Resolved(c, n, r, Escapes(c.op, r), Message(c.op, r)))
        /\ UNCHANGED <<session, restored, currentView, friends, loadingF,
                       loadingR, sendingRequest, removedF>>

(* ------------------------------- AppContent -------------------------- *)

\* What AppContent renders: the dashboard when isLoggedIn, otherwise the
\* page whose name currentView holds.
ShowsDashboard == isLoggedIn
ShowsLogin == ~isLoggedIn /\ currentView = "login"
ShowsRegister == ~isLoggedIn /\ currentView = "register"

(* ----------------------------- specification -------------------------- *)

Next ==
  \/ Restore
  \/ Reload
  \/ Logout
  \/ ShowRegister
  \/ ShowLogin
  \/ SubmitLogin
  \/ ResolveLogin
  \/ SubmitRegister
  \/ ResolveRegister
  \/ ResolveLoadFriends
  \/ RemoveFriend
  \/ ResolveRemoveFriend
  \/ ResolveLoadRequests
  \/ SendFriendRequest
  \/ ResolveSendFriendRequest
  \/ AcceptRequest
  \/ ResolveAcceptRequest
  \/ DeclineRequest
  \/ ResolveDeclineRequest

Spec == Init /\ [][Next]_vars
SpecSession == InitSession /\ [][Next]_vars
SpecRemovals == InitRemovals /\ [][Next]_vars

\* Every remote call that was issued settles: the continuation of a handler
\* whose call is in flight runs eventually.  Nothing obliges the user to
\* act, so the steps the user starts carry no fairness.
CallsSettle ==
  /\ WF_vars(ResolveLogin)
  /\ WF_vars(ResolveRegister)
  /\ WF_vars(ResolveLoadFriends)
  /\ WF_vars(ResolveRemoveFriend)
  /\ WF_vars(ResolveLoadRequests)
  /\ WF_vars(ResolveSendFriendRequest)
  /\ WF_vars(ResolveAcceptRequest)
  /\ WF_vars(ResolveDeclineRequest)
SpecLive == InitLive /\ [][Next]_vars /\ CallsSettle

TypeOK ==
  /\ token \in OptTokens \cup {Some("undefined")}
  /\ isLoggedIn \in BOOLEAN
  /\ stored \in OptTokens \cup {Some("undefined")}
  /\ restored \in BOOLEAN
  /\ currentView \in {"login", "register", "dashboard"}
  /\ friends \in SeqsUpTo(Friends, MaxLen)
  /\ loadingF \in BOOLEAN
  /\ requests \in SeqsUpTo(FriendRequests, MaxLen)
  /\ loadingR \in BOOLEAN
  /\ sendingRequest \in BOOLEAN
  /\ IsABag(inflight)
  /\ \A c \in DOMAIN inflight : c.op \in AllOps
  /\ removedF \subseteq Users
  /\ removedR \subseteq Users
  /\ observe \in {"steps", "session", "removals", "none"}

(* ------------------------------ properties --------------------------- *)

Usernames(list) == {list[i].username : i \in 1..Len(list)}
Senders(list) == {list[i].senderName : i \in 1..Len(list)}

\* The entries of a list other than those of one user, in their order.
RECURSIVE FriendsExcept(_, _)
FriendsExcept(list, id) ==
  IF list = <<>> THEN <<>>
  ELSE IF Head(list).username = id THEN FriendsExcept(Tail(list), id)
  ELSE <<Head(list)>> \o FriendsExcept(Tail(list), id)

RECURSIVE RequestsExcept(_, _)
RequestsExcept(list, id) ==
  IF list = <<>> THEN <<>>
  ELSE IF Head(list).senderName = id THEN RequestsExcept(Tail(list), id)
  ELSE <<Head(list)>> \o RequestsExcept(Tail(list), id)

\* A list without the later entries that repeat an earlier one.
RECURSIVE Dedupe(_)
Dedupe(list) ==
  IF list = <<>> THEN <<>>
  ELSE LET front == Dedupe(SubSeq(list, 1, Len(list) - 1))
           x == list[Len(list)]
       IN  IF \E i \in 1..Len(front) : front[i] = x THEN front ELSE Append(front, x)

\* The payload of the envelope the step just taken saw (`data` or nothing).
LastPayload == IF last.data = None THEN <<>> ELSE last.data[1]

\* The call that the step settles.
SettledCall ==
  CHOOSE c \in DOMAIN inflight : CopiesIn(c, inflight') < CopiesIn(c, inflight)

FailedResolve(ev) ==
  ev.kind = "resolve" /\ (ev.completion = "rejected" \/ ev.status = FAILURE)
SuccessResolve(ev) ==
  ev.kind = "resolve" /\ ev.completion = "returned" /\ ev.status = SUCCESS

C1_Step ==
  /\ (isLoggedIn' /\ friends' # friends) =>
       SuccessResolve(last') /\ last'.op \in {"loadFriends", "removeFriend"}
  /\ (isLoggedIn' /\ requests' # requests) =>
       /\ SuccessResolve(last')
       /\ last'.op \in {"loadRequests", "acceptRequest", "declineRequest"}
  /\ last'.kind = "issue" => friends' = friends /\ requests' = requests
  /\ (FailedResolve(last') /\ last'.op \in RelationshipOps) =>
       friends' = friends /\ requests' = requests
\* C1: while a panel is mounted, friends and requests change only in a step
\* in which the call of one of their operations resolves with a SUCCESS
\* envelope; issuing a call changes neither, and a resolution with a FAILURE
\* envelope or a transport failure leaves both as they were.
C1_ServerConfirmed == [][C1_Step]_vars
\* removeFriend resolved FAILURE on a non-empty list while another call is
\* still in flight.
C1_Witness ==
  /\ FailedResolve(last) /\ last.op = "removeFriend" /\ last.status = FAILURE
  /\ friends # <<>>
  /\ InFlightCount > 0

\* C2: isLoggedIn is true exactly when token is present and non-empty.
C2_ActiveIffToken == isLoggedIn <=> Truthy(token)

C3_Step ==
  (~restored /\ restored') =>
    /\ (last.kind = "resolve" /\ last.data[1] # None) =>
         isLoggedIn' /\ token' = last.data[1]
    /\ last.kind = "logout" => ~isLoggedIn' /\ token' = None
\* C3: restore() in a fresh instance after login(t), t a token string,
\* yields isLoggedIn and token t; after logout() it yields no session.
C3_RoundTrip == [][C3_Step]_vars

C4_Step ==
  last'.kind = "removed" =>
    LET c == SettledCall
    IN  IF c.op = "removeFriend"
        THEN /\ c.arg \notin Usernames(friends')
             /\ friends' = FriendsExcept(friends, c.arg)
             /\ last'.again => friends' = friends
        ELSE /\ c.arg \notin Senders(requests')
             /\ requests' = RequestsExcept(requests, c.arg)
             /\ last'.again => requests' = requests
\* C4: a removal that resolves SUCCESS leaves no entry of that user and
\* keeps every other entry in its order; when an earlier call had already
\* removed the user, it leaves the list as it was.
C4_RemovalComplete == [][C4_Step]_vars
\* A second acceptRequest of the same sender resolved SUCCESS while another
\* sender is still listed.
C4_Witness ==
  /\ last.kind = "removed" /\ last.op = "acceptRequest" /\ last.again
  /\ requests # <<>>

\* C5: after a load resolves SUCCESS with payload P the collection equals
\* dedupe(P).
C5_LoadDedupes ==
  /\ (SuccessResolve(last) /\ last.op = "loadFriends") => friends = Dedupe(LastPayload)
  /\ (SuccessResolve(last) /\ last.op = "loadRequests") => requests = Dedupe(LastPayload)

C7_FailureSurfaced ==
  (FailedResolve(last) /\ last.op \in RelationshipOps) => last.msg = "error"

C8_Step ==
  (last'.kind = "resolve" /\ last'.op = "login") =>
    /\ (SuccessResolve(last') /\ last'.data # None /\ last'.data[1] # None) =>
         isLoggedIn' /\ token' = last'.data[1] /\ stored' = last'.data[1]
    /\ FailedResolve(last') => UNCHANGED session
    /\ session' # session => SuccessResolve(last')
\* C8: a login that resolves SUCCESS with token t leaves isLoggedIn true and
\* t as the token and as the persisted token; one that resolves FAILURE or
\* fails in transport leaves the session as it was, and no login changes the
\* session other than on SUCCESS.
C8_LoginOnSuccessOnly == [][C8_Step]_vars
\* A login resolved SUCCESS with token "t1".
C8_Witness ==
  /\ SuccessResolve(last) /\ last.op = "login" /\ last.data = Some(Some("t1"))
  /\ isLoggedIn /\ token = Some("t1") /\ stored = Some("t1")

\* C9: a user whose removal resolved SUCCESS is in the list in no later
\* state of the mounted panel.
C9_RemovedStaysRemoved ==
  /\ removedF \cap Usernames(friends) = {}
  /\ removedR \cap Senders(requests) = {}
\* The removal of "a" resolved SUCCESS while that of "b" is in flight.
C9_Witness ==
  /\ removedF = {"a"}
  /\ BagIn(Call("removeFriend", "b"), inflight)
  /\ Usernames(friends) = {"b"}

\* C10: exactly one of the three pages is rendered, and without a session
\* it is the login page or the register page.
C10_OnePage ==
  /\ ShowsDashboard \/ ShowsLogin \/ ShowsRegister
  /\ ~(ShowsDashboard /\ ShowsLogin)
  /\ ~(ShowsDashboard /\ ShowsRegister)
  /\ ~(ShowsLogin /\ ShowsRegister)
  /\ ~isLoggedIn => ShowsLogin \/ ShowsRegister

\* C11: a mounted panel whose loading flag is true reaches a state where
\* the flag is false, unless the panel is unmounted first.
C11_LoadingEnds ==
  /\ (isLoggedIn /\ loadingF) ~> (~isLoggedIn \/ ~loadingF)
  /\ (isLoggedIn /\ loadingR) ~> (~isLoggedIn \/ ~loadingR)

====
